---- MODULE Spec2Model ----
(***************************************************************************)
(* Model of src/guide_movie/gf_movie.py: print_progress_bar and make_gif   *)
(* (with its closure update), as one run of make_gif over a list of guide  *)
(* frames on disk.  Strings whose characters the code inspects (paths,     *)
(* OBJECT, REQNUM) are sequences of one-character strings.                 *)
(***************************************************************************)
EXTENDS Integers, Sequences, FiniteSets, TLC

VARIABLES
    files,       \* the frame files on disk: frame id -> what fits.open finds
    prefix,      \* the part of every frame path before the file name
    frames,      \* argument frames: the list of frame paths (as frame ids)
    sort,        \* argument sort
    fr,          \* argument fr (ms/frame)
    init_fr,     \* argument init_fr (ms/frame); 0 stands for None / not set
    tr,          \* argument tr
    center,      \* argument center
    progress,    \* argument progress
    pc,          \* position of make_gif
    fits_files,  \* local fits_files
    copies,      \* local copies
    path,        \* local path
    obj,         \* local obj
    rn,          \* local rn
    cur,         \* the index update is rendering, -1 outside update
    caller,      \* who called update: "first" (line 210), "init" or "save" (anim.save)
    openFile,    \* the frame file that is open (0: none)
    calls,       \* every call of update so far: [n, by]
    shows,       \* every completed render so far: [n, frame, K, N, reticle]
    view,        \* what the last render drew: image shape and reference pixel
    bar,         \* the last call of print_progress_bar and what it printed
    saveIdx,     \* the next index anim.save will render
    initDrawn,   \* anim.save has drawn its initial frame
    savefile,    \* local savefile
    outfiles,    \* the output files on disk: [path, complete]
    ret,         \* what make_gif returned
    error        \* the exception that left make_gif ("none": none)

vars == <<files, prefix, frames, sort, fr, init_fr, tr, center, progress, pc,
          fits_files, copies, path, obj, rn, cur, caller, openFile, calls,
          shows, view, bar, saveIdx, initDrawn, savefile, outfiles, ret, error>>

inputs == <<files, prefix, frames, sort, fr, init_fr, tr, center, progress>>

(***************************************************************************)
(* Bounds of the model.                                                    *)
(***************************************************************************)
MaxLen == 7          \* longest input list of frames
MaxFr == 2           \* largest base interval fr
MaxInitFr == 3       \* largest intro interval init_fr
MaxPrefixLen == 3    \* longest path prefix
MaxDim == 6          \* largest image dimension
MaxTotal == 8        \* largest iteration / total given to print_progress_bar

(***************************************************************************)
(* Program constants.                                                      *)
(***************************************************************************)
start_frames == 5    \* line 82
BarLength == 100     \* line 30, default of length

NoKey == <<"<KeyError>">>     \* a header keyword that is absent
NoValue == <<"<None>">>       \* Python None

\* The file names, in lexical order: the path of frame f is prefix \o <<Name[f]>>.
Name == <<"f1", "f2", "f3", "f4", "f5", "f6", "f7", "f8", "f9">>

PathOf(f) == prefix \o <<Name[f]>>

Max(a, b) == IF a > b THEN a ELSE b

(***************************************************************************)
(* Python and numpy helpers, as the code uses them.                        *)
(***************************************************************************)

\* np.insert(arr, i, v): v is put before 0-based index i.
Insert(arr, i, v) == SubSeq(arr, 1, i) \o <<v>> \o SubSeq(arr, i + 1, Len(arr))

\* np.sort(frames): ascending; paths under one prefix sort by file name.
RECURSIVE SortInto(_, _)
SortInto(sorted, x) ==
    IF sorted = <<>> THEN <<x>>
    ELSE IF x <= Head(sorted) THEN <<x>> \o sorted
    ELSE <<Head(sorted)>> \o SortInto(Tail(sorted), x)

RECURSIVE NpSort(_)
NpSort(s) == IF s = <<>> THEN <<>> ELSE SortInto(NpSort(Tail(s)), Head(s))

\* len(np.unique(arr[:n+1]))
UniqueCount(arr, n) == Cardinality({arr[k] : k \in 1..(n + 1)})

\* str.lstrip(ch)
RECURSIVE LStrip(_, _)
LStrip(s, ch) == IF s # <<>> /\ Head(s) = ch THEN LStrip(Tail(s), ch) ELSE s

\* str.rstrip(ch)
RECURSIVE RStrip(_, _)
RStrip(s, ch) ==
    IF s # <<>> /\ s[Len(s)] = ch THEN RStrip(SubSeq(s, 1, Len(s) - 1), ch) ELSE s

\* str.replace(a, b) for one-character a and b
Replace(s, a, b) == [k \in 1..Len(s) |-> IF s[k] = a THEN b ELSE s[k]]

\* str.rfind('/') + 1
LastSlash(p) ==
    LET at == {k \in 1..Len(p) : p[k] = "/"}
    IN  IF at = {} THEN 0 ELSE CHOOSE k \in at : \A j \in at : j <= k

\* os.path.dirname(p)
Dirname(p) ==
    LET head == SubSeq(p, 1, LastSlash(p))
    IN  IF head # <<>> /\ (\E k \in 1..Len(head) : head[k] # "/")
        THEN RStrip(head, "/")
        ELSE head

\* os.path.join(a, b)
JoinPath(a, b) ==
    IF b # <<>> /\ Head(b) = "/" THEN b
    ELSE IF a = <<>> \/ a[Len(a)] = "/" THEN a \o b
    ELSE a \o <<"/">> \o b

(***************************************************************************)
(* print_progress_bar, lines 30-63.  delta_t is the time since time_in in  *)
(* seconds; time_in = "None" is the default None.                          *)
(***************************************************************************)

\* line 44
FilledLength(iteration, total, length) == (length * iteration) \div total

\* line 45: fill * filled_length + '-' * (length - filled_length)
BarOf(iteration, total, length) ==
    LET filled_length == FilledLength(iteration, total, length)
    IN  [filled |-> Max(filled_length, 0), unfilled |-> Max(length - filled_length, 0)]

\* lines 46-59; total_time = delta_t / iteration * (total - iteration)
TimeLeft(iteration, total, time_in, delta_t) ==
    IF time_in # "None"
    THEN IF delta_t * (total - iteration) > 90 * iteration THEN "min remaining"
         ELSE IF delta_t * (total - iteration) > 5400 * iteration THEN "hrs remaining"
         ELSE "sec remaining"
    ELSE " "

\* lines 62-63
NewlineMutant(iteration, total) == iteration >= total

NewlineOnComplete(iteration, total) == iteration = total

\* lines 43-63: what the call raises and what it writes to the terminal; percent
\* is the quotient line 43 formats, as <<numerator, denominator>>
print_progress_bar(iteration, total, pre, suf, length, time_in, delta_t) ==
    IF total = 0 \/ (time_in # "None" /\ iteration = 0)
    THEN [raised |-> "ZeroDivisionError", out |-> <<>>,
          iteration |-> iteration, total |-> total, time_in |-> time_in,
          percent |-> <<0, 0>>, filled |-> 0, unfilled |-> 0]
    ELSE LET b == BarOf(iteration, total, length)
             line == <<"\r", pre, "|", "bar", "|", "percent", "%",
                       TimeLeft(iteration, total, time_in, delta_t), suf, "\r">>
         IN  [raised |-> "none",
              out |-> IF NewlineOnComplete(iteration, total) THEN line \o <<"\n">> ELSE line,
              iteration |-> iteration, total |-> total, time_in |-> time_in,
              percent |-> <<100 * iteration, total>>,
              filled |-> b.filled, unfilled |-> b.unfilled]

(***************************************************************************)
(* make_gif, lines 66-219: the pure parts.                                 *)
(***************************************************************************)

\* lines 89-92: the inner while loop; returns <<fits_files, i>>
RECURSIVE InnerLoop(_, _, _, _)
InnerLoop(ff, i, c, n) ==
    IF c < n THEN InnerLoop(Insert(ff, i, ff[i + 1]), i + 1, c + 1, n) ELSE <<ff, i>>

\* lines 87-93: the outer while loop
RECURSIVE OuterLoop(_, _, _)
OuterLoop(ff, i, n) ==
    IF i < start_frames * n
    THEN LET r == InnerLoop(ff, i, 1, n) IN OuterLoop(r[1], r[2] + 1, n)
    ELSE ff

\* line 84: init_fr and init_fr > fr and len(fits_files) > start_frames
PadGuardMutant(ifr, f, ff) == ifr # 0 /\ Len(ff) > start_frames

PadGuard(ifr, f, ff) == ifr # 0 /\ ifr > f /\ Len(ff) > start_frames

\* lines 83-93: <<fits_files, copies>> after the padding
Pad(ff, f, ifr) ==
    IF PadGuard(ifr, f, ff)
    THEN <<OuterLoop(ff, 0, ifr \div f), ifr \div f>>
    ELSE <<ff, 1>>

\* lines 106-109
RequestNumber(header) ==
    IF header.REQNUM = NoKey THEN <<"UNKNOWN">> ELSE LStrip(header.REQNUM, "0")

\* line 216
Savefile(p, o, r) ==
    JoinPath(p, Replace(Replace(o, " ", "_"), "/", "_") \o <<"_">> \o r \o <<"_guidemovie.gif">>)

\* lines 147-153: the image shape and the reference pixel after the crop.
\* data.shape is (rows, cols) = (NAXIS2, NAXIS1); CRPIX1 counts along NAXIS1 (the
\* columns), CRPIX2 along NAXIS2 (the rows).  data[k:-k] is empty for k = 0.
Crop(h) ==
    LET x_frac == (2 * h.rows) \div 5
        y_frac == (2 * h.cols) \div 5
    IN  [rows |-> IF x_frac = 0 THEN 0 ELSE h.rows - 2 * x_frac,
         cols |-> IF y_frac = 0 THEN 0 ELSE h.cols - 2 * y_frac,
         CRPIX1 |-> h.CRPIX1 - x_frac,
         CRPIX2 |-> h.CRPIX2 - y_frac]

\* lines 158-165: the exception the timestamp parsing raises ("none": parsed)
ParseDate(h) ==
    IF h.dateKey \notin {"DATE-OBS", "DATE_OBS"} THEN "KeyError"
    ELSE IF h.dateFmt \notin {"%Y-%m-%dT%H:%M:%S.%f", "%Y-%m-%dT%H:%M:%S"} THEN "ValueError"
    ELSE "none"

\* line 191
CurrentCount(ff, n) == UniqueCount(ff, n)

\* line 192: the N of "(K of N)"
TitleTotalMutant(ff, n) == Len(ff)

TitleTotal(ff, n) == Len(ff) - (n - 1) * start_frames

\* line 200
ReticleMutant(count, f, ifr, t) == (count < 5 /\ f # ifr) /\ t

Reticle(count, f, ifr, t) == (count < 6 /\ f # ifr) /\ t

\* line 207: iteration and total of the progress call
ProgressArgsMutant(n, ff) == <<n + 2, Len(ff)>>

ProgressArgs(n, ff) == <<n + 1, Len(ff)>>

\* line 214: frames=len(fits_files), the index the animation renders after index i
NextFrameMutant(i) == i + 2

NextFrame(i) == i + 1


(***************************************************************************)
(* The frame files a run can find.                                         *)
(***************************************************************************)

Good == [openable |-> TRUE, dateKey |-> "DATE-OBS", dateFmt |-> "%Y-%m-%dT%H:%M:%S.%f"]
Old == [openable |-> TRUE, dateKey |-> "DATE_OBS", dateFmt |-> "%Y-%m-%dT%H:%M:%S"]
Unopenable == [openable |-> FALSE, dateKey |-> "DATE-OBS", dateFmt |-> "%Y-%m-%dT%H:%M:%S.%f"]
NoDate == [openable |-> TRUE, dateKey |-> "none", dateFmt |-> "none"]
BadDate == [openable |-> TRUE, dateKey |-> "DATE-OBS", dateFmt |-> "%d/%m/%Y"]

Kinds == {Old, Unopenable, NoDate, BadDate}

\* the positions (in file-name order) at which a run has a frame of another kind
OddPositions == {1, 3, 6}

FileOf(kind, o, r, shape) ==
    [openable |-> kind.openable, dateKey |-> kind.dateKey, dateFmt |-> kind.dateFmt,
     OBJECT |-> o, REQNUM |-> r,
     rows |-> shape[1], cols |-> shape[2], CRPIX1 |-> shape[3], CRPIX2 |-> shape[4]]

\* a frame is malformed: it cannot be opened or its timestamp cannot be parsed
Malformed(f) == ~files[f].openable \/ ParseDate(files[f]) # "none"

\* strings over an alphabet, up to a length
RECURSIVE StringsUpTo(_, _)
StringsUpTo(alphabet, n) ==
    IF n = 0 THEN {<<>>}
    ELSE LET shorter == StringsUpTo(alphabet, n - 1)
         IN  shorter \cup {s \o <<ch>> : s \in shorter, ch \in alphabet}

\* the input list: the frames n, n-1, .., 1 (not in file-name order)
Reversed(n) == [k \in 1..n |-> n + 1 - k]

NotCalled == [raised |-> "not called"]    \* print_progress_bar was not called yet
NotDrawn == [rows |-> -1, cols |-> -1, CRPIX1 |-> -1, CRPIX2 |-> -1, frame |-> 0]

OtherObject == <<"N", "G", "C">>
OtherReqnum == <<"0", "7">>

InitRun(Lens, Frs, InitFrs, Prefixes, Objects, Reqnums, Shapes, Trs, Centers, Progresses) ==
    /\ \E n \in Lens, odd \in {0} \cup OddPositions, kind \in Kinds,
          o \in Objects, r \in Reqnums, shape \in Shapes :
          /\ odd <= n
          /\ odd = 0 => kind = Old
          /\ frames = Reversed(n)
          /\ files = [f \in 1..n |->
                        FileOf(IF f = odd THEN kind ELSE Good,
                               IF f = 1 THEN o ELSE OtherObject,
                               IF f = 1 THEN r ELSE OtherReqnum, shape)]
    /\ prefix \in Prefixes
    /\ sort \in BOOLEAN
    /\ fr \in Frs
    /\ init_fr \in InitFrs
    /\ tr \in Trs
    /\ center \in Centers
    /\ progress \in Progresses
    /\ pc = "sort"
    /\ fits_files = <<>>
    /\ copies = 1
    /\ path = NoValue
    /\ obj = NoValue
    /\ rn = NoValue
    /\ cur = -1
    /\ caller = "none"
    /\ openFile = 0
    /\ calls = <<>>
    /\ shows = <<>>
    /\ view = NotDrawn
    /\ bar = NotCalled
    /\ saveIdx = 0
    /\ initDrawn = FALSE
    /\ savefile = NoValue
    /\ outfiles = {}
    /\ ret = NoValue
    /\ error = "none"

Init ==
    InitRun(1..MaxLen, 1..MaxFr, 0..MaxInitFr, {<<"/", "d", "/">>},
            {<<"M", "4", "2">>}, {<<"0", "0", "4", "2">>}, {<<5, 5, 3, 3>>},
            BOOLEAN, BOOLEAN, BOOLEAN)


(***************************************************************************)
(* make_gif, lines 66-219, step by step.                                   *)
(***************************************************************************)

\* seconds between time_in (line 127) and a progress call
Elapsed == {1, 200}

\* What an exception that leaves make_gif does to the output.  Outside anim.save
\* nothing was written.  Inside anim.save (line 217) the writer was already given
\* savefile and the frames rendered so far, and make_gif neither guards nor
\* removes the file: whether a truncated file is left is up to the writer.
OutputsAfterRaise ==
    IF caller = "save" /\ saveIdx > 0
    THEN {{}, {[path |-> savefile, complete |-> FALSE]}}
    ELSE {{}}

\* an exception propagates out of make_gif: no handler, no retry
Raise(exc) ==
    /\ pc' = "aborted"
    /\ error' = exc
    /\ openFile' = 0
    /\ outfiles' \in OutputsAfterRaise
    /\ UNCHANGED <<inputs, fits_files, copies, path, obj, rn, cur, caller, calls,
                   shows, view, bar, saveIdx, initDrawn, savefile, ret>>

\* lines 76-80
SortFrames ==
    /\ pc = "sort"
    /\ fits_files' = IF sort THEN NpSort(frames) ELSE frames
    /\ path' = LStrip(Dirname(PathOf(frames[1])), " ")
    /\ pc' = "pad"
    /\ UNCHANGED <<inputs, copies, obj, rn, cur, caller, openFile, calls, shows, view,
                   bar, saveIdx, initDrawn, savefile, outfiles, ret, error>>

\* lines 82-93
PadFrames ==
    /\ pc = "pad"
    /\ fits_files' = Pad(fits_files, fr, init_fr)[1]
    /\ copies' = Pad(fits_files, fr, init_fr)[2]
    /\ pc' = "header"
    /\ UNCHANGED <<inputs, path, obj, rn, cur, caller, openFile, calls, shows, view,
                   bar, saveIdx, initDrawn, savefile, outfiles, ret, error>>

\* lines 96-127: the header of the first frame, the title, the figure
ReadHeader ==
    /\ pc = "header"
    /\ LET header == files[fits_files[1]]
       IN  IF ~header.openable THEN Raise("OSError")
           ELSE IF header.OBJECT = NoKey THEN Raise("KeyError")
           ELSE /\ obj' = header.OBJECT
                /\ rn' = RequestNumber(header)
                /\ pc' = "first"
                /\ UNCHANGED <<inputs, fits_files, copies, path, cur, caller, openFile,
                               calls, shows, view, bar, saveIdx, initDrawn, savefile,
                               outfiles, ret, error>>

\* a call update(n)
CallUpdate(n, by) ==
    /\ cur' = n
    /\ caller' = by
    /\ calls' = Append(calls, [n |-> n, by |-> by, open |-> openFile])
    /\ pc' = "update_open"

\* line 210: ax1 = update(0)
FirstUpdate ==
    /\ pc = "first"
    /\ CallUpdate(0, "first")
    /\ UNCHANGED <<inputs, fits_files, copies, path, obj, rn, openFile, shows, view,
                   bar, saveIdx, initDrawn, savefile, outfiles, ret, error>>

\* line 136: fits.open(fits_files[n])
UpdateOpen ==
    /\ pc = "update_open"
    /\ LET f == fits_files[cur + 1]
       IN  IF ~files[f].openable THEN Raise("OSError")
           ELSE /\ openFile' = f
                /\ pc' = "update_body"
                /\ UNCHANGED <<inputs, fits_files, copies, path, obj, rn, cur, caller,
                               calls, shows, view, bar, saveIdx, initDrawn, savefile,
                               outfiles, ret, error>>

\* lines 137-208: read header and data, leave the with block (the file is closed),
\* crop, parse the timestamp, draw, report progress, return to the caller
UpdateRender ==
    /\ pc = "update_body"
    /\ LET f == fits_files[cur + 1]
           header_n == files[f]
           shown == IF center THEN Crop(header_n)
                    ELSE [rows |-> header_n.rows, cols |-> header_n.cols,
                          CRPIX1 |-> header_n.CRPIX1, CRPIX2 |-> header_n.CRPIX2]
           drawn == [rows |-> shown.rows, cols |-> shown.cols, CRPIX1 |-> shown.CRPIX1,
                     CRPIX2 |-> shown.CRPIX2, frame |-> f]
           current_count == CurrentCount(fits_files, cur)
           args == ProgressArgs(cur, fits_files)
       IN  IF ParseDate(header_n) # "none" THEN Raise(ParseDate(header_n))
           ELSE \E delta_t \in Elapsed :
                LET printed == print_progress_bar(args[1], args[2], "Creating Gif: Frame",
                                                  "", BarLength, "time_in", delta_t)
                IN  IF progress /\ printed.raised # "none" THEN Raise(printed.raised)
                    ELSE /\ openFile' = 0
                         /\ view' = drawn
                         /\ shows' = Append(shows,
                                [n |-> cur, frame |-> f, K |-> current_count,
                                 N |-> TitleTotal(fits_files, copies),
                                 reticle |-> Reticle(current_count, fr, init_fr, tr)])
                         /\ bar' = IF progress THEN printed ELSE bar
                         /\ cur' = -1
                         /\ pc' = IF caller = "first" THEN "anim" ELSE "save"
                         /\ saveIdx' = IF caller = "save" THEN NextFrame(saveIdx) ELSE saveIdx
                         /\ UNCHANGED <<inputs, fits_files, copies, path, obj, rn, caller,
                                        calls, initDrawn, savefile, outfiles, ret, error>>

\* lines 211-216: the layout, the animation over frames=len(fits_files), savefile
BuildAnimation ==
    /\ pc = "anim"
    /\ savefile' = Savefile(path, obj, rn)
    /\ saveIdx' = 0
    /\ pc' = "save"
    /\ UNCHANGED <<inputs, fits_files, copies, path, obj, rn, cur, caller, openFile,
                   calls, shows, view, bar, initDrawn, outfiles, ret, error>>

\* line 217: anim.save may draw the first frame to initialise the figure
SaveInitDraw ==
    /\ pc = "save"
    /\ saveIdx = 0
    /\ ~initDrawn
    /\ initDrawn' = TRUE
    /\ CallUpdate(0, "init")
    /\ UNCHANGED <<inputs, fits_files, copies, path, obj, rn, openFile, shows, view,
                   bar, saveIdx, savefile, outfiles, ret, error>>

\* line 217: anim.save renders the next index of range(len(fits_files))
SaveRender ==
    /\ pc = "save"
    /\ saveIdx < Len(fits_files)
    /\ CallUpdate(saveIdx, "save")
    /\ UNCHANGED <<inputs, fits_files, copies, path, obj, rn, openFile, shows, view,
                   bar, saveIdx, initDrawn, savefile, outfiles, ret, error>>

\* lines 217-219: every index is rendered, the file is written, savefile returned
SaveFinish ==
    /\ pc = "save"
    /\ saveIdx >= Len(fits_files)
    /\ outfiles' = outfiles \cup {[path |-> savefile, complete |-> TRUE]}
    /\ ret' = savefile
    /\ pc' = "done"
    /\ UNCHANGED <<inputs, fits_files, copies, path, obj, rn, cur, caller, openFile,
                   calls, shows, view, bar, saveIdx, initDrawn, savefile, error>>

Next ==
    \/ SortFrames
    \/ PadFrames
    \/ ReadHeader
    \/ FirstUpdate
    \/ UpdateOpen
    \/ UpdateRender
    \/ BuildAnimation
    \/ SaveInitDraw
    \/ SaveRender
    \/ SaveFinish

Spec == Init /\ [][Next]_vars


(***************************************************************************)
(* The other input sets: many paths and headers, many image shapes.        *)
(***************************************************************************)

Objects == {<<"M", "4", "2">>, <<"N", " ", "1">>, <<"a", "/", "b">>, <<" ", "/">>, NoKey}
Reqnums == {<<"0", "0", "4", "2">>, <<"4", "0">>, <<"0", "0">>, <<>>, NoKey}

InitPath ==
    InitRun({1, 2}, {1}, {0}, StringsUpTo({" ", "/", "d"}, MaxPrefixLen),
            Objects, Reqnums, {<<5, 5, 3, 3>>}, {FALSE}, {FALSE}, {FALSE})

SpecPath == InitPath /\ [][Next]_vars

\* image dimensions; a crop of an image of 1 or 2 pixels is empty
Dims == 3..MaxDim

Shapes == {<<rows, cols, c1, c2>> : rows \in Dims, cols \in Dims, c1 \in {1, 3}, c2 \in {1, 3}}

InitCrop ==
    InitRun({1, 2}, {1}, {0, 1}, {<<"/", "d", "/">>}, {<<"M", "4", "2">>},
            {<<"0", "0", "4", "2">>}, Shapes, BOOLEAN, BOOLEAN, {FALSE})

SpecCrop == InitCrop /\ [][Next]_vars

(***************************************************************************)
(* print_progress_bar called on its own, with any iteration and total.     *)
(***************************************************************************)

InitBar ==
    /\ files = <<>>
    /\ prefix = <<>>
    /\ frames = <<>>
    /\ sort = TRUE
    /\ fr = 100
    /\ init_fr = 1000
    /\ tr = FALSE
    /\ center = FALSE
    /\ progress = FALSE
    /\ pc = "bar"
    /\ fits_files = <<>>
    /\ copies = 1
    /\ path = NoValue
    /\ obj = NoValue
    /\ rn = NoValue
    /\ cur = -1
    /\ caller = "none"
    /\ openFile = 0
    /\ calls = <<>>
    /\ shows = <<>>
    /\ view = NotDrawn
    /\ bar = NotCalled
    /\ saveIdx = 0
    /\ initDrawn = FALSE
    /\ savefile = NoValue
    /\ outfiles = {}
    /\ ret = NoValue
    /\ error = "none"

\* one call print_progress_bar(iteration, total, prefix=.., time_in=..)
BarCall ==
    /\ pc = "bar"
    /\ \E iteration \in 0..MaxTotal, total \in 0..MaxTotal,
          time_in \in {"None", "time_in"}, delta_t \in Elapsed :
          bar' = print_progress_bar(iteration, total, "Progress:", "Complete",
                                    BarLength, time_in, delta_t)
    /\ UNCHANGED <<inputs, pc, fits_files, copies, path, obj, rn, cur, caller, openFile,
                   calls, shows, view, saveIdx, initDrawn, savefile, outfiles, ret, error>>

NextBar == BarCall

SpecBar == InitBar /\ [][NextBar]_vars


(***************************************************************************)
(* The claims.                                                             *)
(***************************************************************************)

\* the input sequence as make_gif orders it before padding: in file-name order
\* (the frames are 1..n) when sort is set, as given otherwise
Ordered == IF sort THEN [k \in 1..Len(frames) |-> k] ELSE frames

Padded == pc \notin {"sort", "pad", "bar"}

\* each of the first start_frames frames of s m times in a row, then the rest once
Repeated(s, m) ==
    [k \in 1..(Len(s) + start_frames * (m - 1)) |->
        IF k <= start_frames * m THEN s[((k - 1) \div m) + 1]
        ELSE s[k - start_frames * (m - 1)]]

\* C1: for every sequence of at least 5 frames with init_fr set and init_fr > fr,
\* the padded sequence is each of the first 5 frames floor(init_fr / fr) times in a
\* row, then every remaining frame once, in the original order.
C1_PaddingFromFiveFrames ==
    (Padded /\ Len(frames) >= 5 /\ init_fr # 0 /\ init_fr > fr)
        => fits_files = Repeated(Ordered, init_fr \div fr)

\* The same for sequences of more than 5 frames, which is what line 84 asks for.
PaddingAboveFiveFrames ==
    (Padded /\ Len(frames) > 5 /\ init_fr # 0 /\ init_fr > fr)
        => /\ fits_files = Repeated(Ordered, init_fr \div fr)
           /\ copies = init_fr \div fr

\* C2: when init_fr is not set, or init_fr <= fr, or there are fewer than 5 frames,
\* the padding changes nothing: the padded sequence is the (sorted) input sequence
\* and the multiplier stays 1.
C2_PaddingNoOp ==
    (Padded /\ (init_fr = 0 \/ init_fr <= fr \/ Len(frames) < 5))
        => (fits_files = Ordered /\ copies = 1)

C2_Witness ==
    /\ pc = "header"
    /\ init_fr # 0 /\ init_fr <= fr
    /\ Len(frames) > start_frames
    /\ sort /\ fits_files # frames

\* C3: in every rendered title "(K of N)", N is the length of the original,
\* unpadded sequence, whatever the multiplier.
C3_TitleTotalIsOriginalLength ==
    \A k \in 1..Len(shows) : shows[k].N = Len(frames)

C3_Witness ==
    /\ copies > 1
    /\ \E k \in 1..Len(shows) : shows[k].n >= start_frames * copies

\* C7: at every rendered index the reticle is drawn exactly when the frame is one
\* of the first 5 frames of the sequence, fr differs from init_fr and tr is set.
C7_ReticleOnFirstFrames ==
    \A k \in 1..Len(shows) :
        shows[k].reticle <=>
            /\ \E i \in 1..Len(Ordered) : i <= 5 /\ Ordered[i] = shows[k].frame
            /\ fr # init_fr
            /\ tr

C7_Witness ==
    /\ copies > 1
    /\ \E j, k \in 1..Len(shows) :
          /\ shows[j].n >= start_frames /\ shows[j].reticle
          /\ ~shows[k].reticle

\* the calls of update that the frame loop of anim.save made
SaveCalls == SelectSeq(calls, LAMBDA c : c.by = "save")

\* C9 as stated: update is invoked exactly once per index of the padded sequence,
\* in increasing order, no index twice and none skipped, each file closed before
\* the next index is rendered.
C9_OncePerIndex ==
    /\ \A i, j \in 1..Len(calls) : i < j => calls[i].n < calls[j].n
    /\ \A i \in 1..Len(calls) : calls[i].open = 0
    /\ pc = "done" => Len(calls) = Len(fits_files)

\* C9 amended: make_gif itself renders index 0 once before the animation exists;
\* anim.save then renders every index of the padded sequence once, in increasing
\* order, none skipped, after at most one more render of index 0; so only index 0
\* is rendered more than once.  A frame file is open only while its own index is
\* being read, and is closed before the next render starts.
C9_OncePerIndexAfterFirstRender ==
    /\ calls # <<>> => calls[1] = [n |-> 0, by |-> "first", open |-> 0]
    /\ \A i \in 1..Len(calls) :
          /\ calls[i].open = 0
          /\ calls[i].by = "first" => i = 1
          /\ calls[i].by # "save" => calls[i].n = 0
    /\ Cardinality({i \in 1..Len(calls) : calls[i].by = "init"}) <= 1
    /\ \A k \in 1..Len(SaveCalls) : SaveCalls[k].n = k - 1
    /\ pc = "done" => Len(SaveCalls) = Len(fits_files)
    /\ openFile # 0 => (pc = "update_body" /\ openFile = fits_files[cur + 1])

C9_Witness ==
    /\ pc = "done"
    /\ Len(fits_files) > Len(frames)
    /\ Len(calls) > Len(fits_files)

\* C10: every call of print_progress_bar by make_gif has 1 <= iteration <= total
\* with total the padded length and iteration n + 1, so it raises nothing, the bar
\* is exactly length characters wide, and iteration = total only at the last index.
C10_ProgressCallsInRange ==
    bar.raised # "not called" =>
        /\ bar.raised = "none"
        /\ shows # <<>>
        /\ bar.iteration = shows[Len(shows)].n + 1
        /\ bar.total = Len(fits_files)
        /\ 1 <= bar.iteration /\ bar.iteration <= bar.total
        /\ bar.filled + bar.unfilled = BarLength
        /\ bar.iteration = bar.total => shows[Len(shows)].n = Len(fits_files) - 1

C10_Witness ==
    /\ bar.raised = "none"
    /\ bar.iteration = bar.total
    /\ bar.total > Len(frames)
    /\ bar.out[Len(bar.out)] = "\n"

Ended == pc \in {"done", "aborted"}

SomeFrameMalformed == \E k \in 1..Len(frames) : Malformed(frames[k])

\* C5: a run is all or nothing: if some frame is malformed the run aborts with no
\* output file written; otherwise it completes and writes exactly one output file.
C5_AllOrNothing ==
    /\ pc = "aborted" => outfiles = {}
    /\ pc = "done" => outfiles = {[path |-> savefile, complete |-> TRUE]}
    /\ Ended => (SomeFrameMalformed <=> pc = "aborted")

\* What does hold of a malformed frame: the first one rendered ends the run with
\* its exception, nothing is returned and no frame after it is rendered.
AbortsAtFirstMalformedFrame ==
    /\ \A k \in 1..Len(shows) : ~Malformed(shows[k].frame)
    /\ pc = "aborted" =>
          /\ ret = NoValue
          /\ error \in {"OSError", "KeyError", "ValueError"}
          /\ \A o \in outfiles : ~o.complete
    /\ Ended => (SomeFrameMalformed <=> pc = "aborted")

\* C4: the returned path is <directory of the first input frame>/<OBJECT with
\* spaces and slashes replaced by underscores>_<request number>_guidemovie.gif,
\* OBJECT and request number taken from the first frame of the sequence, the
\* request number without its leading zeros, UNKNOWN when REQNUM is missing.
C4_OutputPath ==
    pc = "done" =>
        LET first == files[Ordered[1]]
            request == IF first.REQNUM = NoKey THEN <<"UNKNOWN">>
                       ELSE LStrip(first.REQNUM, "0")
            name == [k \in 1..Len(first.OBJECT) |->
                        IF first.OBJECT[k] \in {" ", "/"} THEN "_" ELSE first.OBJECT[k]]
        IN  ret = JoinPath(Dirname(PathOf(frames[1])),
                           name \o <<"_">> \o request \o <<"_guidemovie.gif">>)

\* C8: with center-crop the renderer cuts floor(dim / 2.5) from both edges of each
\* dimension and shifts CRPIX1 by the offset cut along the columns and CRPIX2 by the
\* offset cut along the rows, so the reference pixel stays on the same image pixel.
C8_CropKeepsReferencePixel ==
    (center /\ view.frame # 0) =>
        LET h == files[view.frame]
            rowOffset == (2 * h.rows) \div 5
            colOffset == (2 * h.cols) \div 5
        IN  /\ view.rows = h.rows - 2 * rowOffset
            /\ view.cols = h.cols - 2 * colOffset
            /\ view.CRPIX1 = h.CRPIX1 - colOffset
            /\ view.CRPIX2 = h.CRPIX2 - rowOffset

Newline(b) == \E k \in 1..Len(b.out) : b.out[k] = "\n"

OverwritesLine(b) == b.out # <<>> /\ b.out[1] = "\r" /\ b.out[Len(b.out)] = "\r"

NoTimeRemaining(b) == \A k \in 1..Len(b.out) :
    b.out[k] \notin {"min remaining", "hrs remaining", "sec remaining"}

\* C6 as stated: for every iteration and total, print_progress_bar prints a trailing
\* newline exactly when iteration = total and otherwise only overwrites the line;
\* without time_in no time-remaining suffix appears.
C6_NewlineExactlyOnComplete ==
    bar.raised # "not called" =>
        /\ Newline(bar) <=> bar.iteration = bar.total
        /\ bar.iteration # bar.total => OverwritesLine(bar)
        /\ bar.time_in = "None" => NoTimeRemaining(bar)

\* C6 amended: the same for every call that returns, that is for total # 0 (and
\* iteration # 0 when time_in is given); the other calls raise ZeroDivisionError
\* before anything is printed.
C6_NewlineOnCompleteWhenReturning ==
    bar.raised # "not called" =>
        /\ bar.raised = "none" <=>
              (bar.total # 0 /\ (bar.time_in # "None" => bar.iteration # 0))
        /\ bar.raised # "none" => bar.out = <<>>
        /\ bar.raised = "none" =>
              /\ Newline(bar) <=> bar.iteration = bar.total
              /\ Newline(bar) => bar.out[Len(bar.out)] = "\n"
              /\ bar.iteration # bar.total => OverwritesLine(bar)
              /\ bar.time_in = "None" => NoTimeRemaining(bar)

C6_Witness ==
    /\ bar.raised = "none"
    /\ bar.time_in = "None"
    /\ bar.iteration = bar.total
    /\ Newline(bar)


====
